---------------------------- MODULE Spec2Model ----------------------------
(***************************************************************************)
(* Model of src/app.py: a multi-tenant knowledge-base search service.      *)
(*                                                                         *)
(*   upload()  stores one vector store per tenant in a bucket of blobs;    *)
(*   search()  scans the tenant's documents with a lexical matcher,        *)
(*             queries the vector store, and fuses both hit lists into a   *)
(*             list of at most six results, unique by url.                 *)
(*                                                                         *)
(* Every request handler is one action.  The external collaborators        *)
(* (rapidfuzz, the embedding model and the FAISS index, str.lower) are     *)
(* modelled by fixed tables over a small vocabulary of texts.              *)
(***************************************************************************)
EXTENDS Integers, Sequences, FiniteSets, TLC

VARIABLES
    bucket,         \* GCS bucket: blob name -> pickled vector store
    uploaded,       \* history: tenant -> docs of its last successful upload
    request,        \* the request handled last
    response,       \* the response returned for it: [status, body]
    all_docs,       \* the local all_docs of that request, if it was a search
    fuzzy_hits,     \* its local fuzzy_hits
    semantic_hits,  \* its local semantic_hits
    ranked          \* the fuzzy-ranking loop body on one pair of lexical scores

vars == <<bucket, uploaded, request, response, all_docs, fuzzy_hits, semantic_hits, ranked>>

---------------------------------------------------------------------------
(* Bounds of the model.                                                    *)

\* longest docs list of an upload request in Spec
MaxUploadDocs == 2

\* longest docs list behind a stored corpus in SpecFusion
MaxDocs == 7

---------------------------------------------------------------------------
(* Python values.                                                          *)

\* Python's None, as returned by dict.get for an absent key
None == "<None>"

\* dict.get(key, default)
Get(d, key, default) == IF key \in DOMAIN d THEN d[key] ELSE default

\* truth value of a string-or-None: None and "" are falsy
Truthy(s) == s # None /\ s # ""

\* str.lower(); the vocabulary is lower case except the default title
Lower(s) == IF s = "Untitled" THEN "untitled" ELSE s

\* s[:200]; every text of the vocabulary is shorter than 200 characters
Snippet(s) == s

Max2(a, b) == IF a >= b THEN a ELSE b

---------------------------------------------------------------------------
(* External collaborators.                                                 *)

\* the values fuzz.partial_ratio can return
Ratios == 0..100

\* fuzz.partial_ratio(query, text): a fixed table over the vocabulary
partial_ratio(query, text) ==
    CASE text = "t100" -> 100
      [] text = "t90"  -> 90
      [] text = "t50"  -> 50
      [] text = "c85"  -> 85
      [] text = "c70"  -> 70
      [] text = "c60"  -> 60
      [] OTHER         -> 40

\* distance between the embeddings of query and text (an integer stands
\* for the float)
distance(query, text) ==
    CASE text = "c60" -> 3
      [] text = "c85" -> 2
      [] text = "c70" -> 1
      [] OTHER        -> 4

\* k of similarity_search_with_score
K == 10

\* number of results search() returns at most
MaxResults == 6

\* lexical score a document needs to become a fuzzy hit
Threshold == 80

---------------------------------------------------------------------------
(* Storage helpers.                                                        *)

get_blob_name(tenant_id) == "vectorstores/" \o tenant_id \o ".pkl"

\* load_vectorstore returning an empty store for a blob that does not exist
load_vectorstore_empty(b, tenant_id) ==
    IF get_blob_name(tenant_id) \in DOMAIN b
    THEN <<b[get_blob_name(tenant_id)]>>
    ELSE << <<>> >>

\* the unpickled blob in a one-element sequence, or <<>> for Python's None
\* when the blob does not exist
load_vectorstore(b, tenant_id) ==
    IF get_blob_name(tenant_id) \in DOMAIN b
    THEN <<b[get_blob_name(tenant_id)]>>
    ELSE <<>>

\* save_vectorstore appending to the stored blob instead of overwriting it
save_vectorstore_merge(b, tenant_id, vectorstore) ==
    [n \in DOMAIN b \cup {get_blob_name(tenant_id)} |->
        IF n = get_blob_name(tenant_id)
        THEN (IF n \in DOMAIN b THEN b[n] \o vectorstore ELSE vectorstore)
        ELSE b[n]]

\* the bucket after save_vectorstore: the blob is overwritten
save_vectorstore(b, tenant_id, vectorstore) ==
    [n \in DOMAIN b \cup {get_blob_name(tenant_id)} |->
        IF n = get_blob_name(tenant_id) THEN vectorstore ELSE b[n]]

\* FAISS.from_texts: one stored Document per text, in order
from_texts(texts, metadatas) ==
    [i \in 1..Len(texts) |-> [page_content |-> texts[i], metadata |-> metadatas[i]]]

---------------------------------------------------------------------------
(* Sorting.                                                                *)

RECURSIVE InsertDesc(_, _)
\* x placed behind every element whose score is >= its own
InsertDesc(x, s) ==
    IF s = <<>> THEN <<x>>
    ELSE IF Head(s).score >= x.score THEN <<Head(s)>> \o InsertDesc(x, Tail(s))
    ELSE <<x>> \o s

RECURSIVE SortDescN(_, _)
SortDescN(s, n) == IF n = 0 THEN <<>> ELSE InsertDesc(s[n], SortDescN(s, n - 1))

\* sorted_reverse without the sort
sorted_reverse_unsorted(s) == s

\* sorted_reverse without reverse=True
sorted_reverse_ascending(s) ==
    LET RECURSIVE Asc(_, _)
        Asc(t, n) ==
            IF n = 0 THEN <<>>
            ELSE LET RECURSIVE Ins(_, _)
                     Ins(x, u) ==
                         IF u = <<>> THEN <<x>>
                         ELSE IF Head(u).score <= x.score THEN <<Head(u)>> \o Ins(x, Tail(u))
                         ELSE <<x>> \o u
                 IN  Ins(t[n], Asc(t, n - 1))
    IN  Asc(s, Len(s))

\* sorted(s, key=lambda x: x["score"], reverse=True): stable
sorted_reverse(s) == SortDescN(s, Len(s))

RECURSIVE InsertAsc(_, _)
InsertAsc(x, s) ==
    IF s = <<>> THEN <<x>>
    ELSE IF Head(s).score <= x.score THEN <<Head(s)>> \o InsertAsc(x, Tail(s))
    ELSE <<x>> \o s

RECURSIVE SortAscN(_, _)
SortAscN(s, n) == IF n = 0 THEN <<>> ELSE InsertAsc(s[n], SortAscN(s, n - 1))

\* vectorstore.similarity_search_with_score(query, k): the k nearest
\* documents with their distances, nearest first
similarity_search_with_score(vectorstore, query, k) ==
    LET scored == [i \in 1..Len(vectorstore) |->
                     [doc |-> vectorstore[i],
                      score |-> distance(query, vectorstore[i].page_content)]]
        nearest == SortAscN(scored, Len(scored))
    IN  SubSeq(nearest, 1, IF Len(nearest) < k THEN Len(nearest) ELSE k)

---------------------------------------------------------------------------
(* search(): the hit lists.                                                *)

SemanticHits(vectorstore, query) ==
    LET semantic_results == similarity_search_with_score(vectorstore, query, K)
    IN  [i \in 1..Len(semantic_results) |->
            [title   |-> Get(semantic_results[i].doc.metadata, "title", "Untitled"),
             url     |-> Get(semantic_results[i].doc.metadata, "url", ""),
             snippet |-> Snippet(semantic_results[i].doc.page_content),
             score   |-> semantic_results[i].score,
             source  |-> "semantic"]]

AllDocs(vectorstore) ==
    [i \in 1..Len(vectorstore) |->
        [title   |-> Get(vectorstore[i].metadata, "title", "Untitled"),
         url     |-> Get(vectorstore[i].metadata, "url", ""),
         content |-> vectorstore[i].page_content]]

\* Retained with > in place of >=
Retained_strict(score_title, score_content) ==
    (IF score_title >= score_content THEN score_title ELSE score_content) > 80

\* the condition under which a scanned document becomes a fuzzy hit
Retained(score_title, score_content) ==
    Max2(score_title, score_content) >= Threshold

\* the score of a fuzzy hit
boosted_score(score_title, score_content) ==
    IF score_title = 100 THEN 200
    ELSE IF score_content = 100 THEN 180
    ELSE IF score_title > score_content THEN Max2(score_title, score_content) + 50
    ELSE Max2(score_title, score_content)

\* the body of the scan loop for one document: the hits it appends
FuzzyEntry(d, query) ==
    LET score_title   == partial_ratio(query, Lower(d.title))
        score_content == partial_ratio(query, Lower(d.content))
    IN  IF Retained(score_title, score_content)
        THEN << [title   |-> d.title,
                 url     |-> d.url,
                 snippet |-> Snippet(d.content),
                 score   |-> boosted_score(score_title, score_content),
                 source  |-> "fuzzy"] >>
        ELSE <<>>

RECURSIVE FuzzyHitsN(_, _, _)
FuzzyHitsN(docs, query, n) ==
    IF n = 0 THEN <<>>
    ELSE FuzzyHitsN(docs, query, n - 1) \o FuzzyEntry(docs[n], query)

\* the scan loop over all_docs
FuzzyHits(docs, query) == FuzzyHitsN(docs, query, Len(docs))

---------------------------------------------------------------------------
(* search(): the fusion.                                                   *)

RECURSIVE Fill_nodedup(_, _, _)
\* Fill without the seen_urls test
Fill_nodedup(items, final_results, seen_urls) ==
    IF items = <<>> \/ Len(final_results) >= 6
    THEN [final_results |-> final_results, seen_urls |-> seen_urls]
    ELSE Fill_nodedup(Tail(items), Append(final_results, Head(items)),
                      seen_urls \cup {Head(items).url})

RECURSIVE Fill_nocap(_, _, _)
\* Fill without the length test
Fill_nocap(items, final_results, seen_urls) ==
    IF items = <<>>
    THEN [final_results |-> final_results, seen_urls |-> seen_urls]
    ELSE IF Head(items).url \notin seen_urls
         THEN Fill_nocap(Tail(items), Append(final_results, Head(items)),
                         seen_urls \cup {Head(items).url})
         ELSE Fill_nocap(Tail(items), final_results, seen_urls)

RECURSIVE Fill(_, _, _)
\* one of the two append loops of search(), started with the given
\* final_results and seen_urls: stop at MaxResults, skip seen urls
Fill(items, final_results, seen_urls) ==
    IF items = <<>> \/ Len(final_results) >= MaxResults
    THEN [final_results |-> final_results, seen_urls |-> seen_urls]
    ELSE IF Head(items).url \notin seen_urls
         THEN Fill(Tail(items), Append(final_results, Head(items)),
                   seen_urls \cup {Head(items).url})
         ELSE Fill(Tail(items), final_results, seen_urls)

RECURSIVE MaxScore(_)
\* max([f['score'] for f in hits], default=0)
MaxScore(hits) ==
    IF hits = <<>> THEN 0
    ELSE IF Len(hits) = 1 THEN hits[1].score
    ELSE Max2(Head(hits).score, MaxScore(Tail(hits)))

\* Fallback without the length clause
Fallback_weak(final_results, max_fuzzy_score) == max_fuzzy_score < 80

\* whether the semantic hits are appended
Fallback(final_results, max_fuzzy_score) ==
    Len(final_results) < MaxResults \/ max_fuzzy_score < Threshold

\* Fuse filling from the semantic hits first
Fuse_semfirst(fuzzy, semantic) ==
    LET first == Fill(sorted_reverse(semantic), <<>>, {})
    IN  Fill(sorted_reverse(fuzzy), first.final_results, first.seen_urls).final_results

Fuse(fuzzy, semantic) ==
    LET first == Fill(sorted_reverse(fuzzy), <<>>, {})
        max_fuzzy_score == MaxScore(fuzzy)
    IN  IF Fallback(first.final_results, max_fuzzy_score)
        THEN Fill(sorted_reverse(semantic), first.final_results, first.seen_urls).final_results
        ELSE first.final_results

---------------------------------------------------------------------------
(* The handlers.                                                           *)

\* the validation of upload() without the docs test
UploadRejected_nodocs(tenant_id, docs) == ~Truthy(tenant_id)

\* the validation of upload()
UploadRejected(tenant_id, docs) == ~Truthy(tenant_id) \/ docs = <<>>

\* upload(): the response and the bucket it leaves, for the JSON body data
UploadResult(b, u, data) ==
    LET tenant_id == Get(data, "tenant_id", None)
        docs      == Get(data, "docs", <<>>)
    IN  IF UploadRejected(tenant_id, docs)
        THEN [bucket |-> b, uploaded |-> u,
              response |-> [status |-> 400,
                            body |-> [error |-> "Missing tenant_id or docs"]]]
        ELSE IF \E i \in 1..Len(docs) : "content" \notin DOMAIN docs[i]
        THEN \* d["content"] raises KeyError: nothing was saved
             [bucket |-> b, uploaded |-> u,
              response |-> [status |-> 500, body |-> [error |-> "KeyError"]]]
        ELSE LET texts == [i \in 1..Len(docs) |-> docs[i].content]
                 metadatas == [i \in 1..Len(docs) |->
                                 [title |-> Get(docs[i], "title", "Untitled"),
                                  url   |-> Get(docs[i], "url", "")]]
                 vectorstore == from_texts(texts, metadatas)
             IN  [bucket |-> save_vectorstore(b, tenant_id, vectorstore),
                  uploaded |-> [t \in DOMAIN u \cup {tenant_id} |->
                                   IF t = tenant_id THEN docs ELSE u[t]],
                  response |-> [status |-> 200,
                                body |-> [message |-> "KB uploaded for tenant " \o tenant_id,
                                          docs_added |-> Len(docs)]]]

Upload(data) ==
    LET r == UploadResult(bucket, uploaded, data)
    IN  /\ request' = [op |-> "upload", data |-> data]
        /\ bucket' = r.bucket
        /\ uploaded' = r.uploaded
        /\ response' = r.response
        /\ all_docs' = <<>>
        /\ fuzzy_hits' = <<>>
        /\ semantic_hits' = <<>>
        /\ UNCHANGED ranked

Search(args) ==
    LET tenant_id == Get(args, "tenant_id", None)
        query     == Lower(Get(args, "query", ""))
    IN  /\ request' = [op |-> "search", args |-> args]
        /\ UNCHANGED <<bucket, uploaded, ranked>>
        /\ IF ~Truthy(tenant_id) \/ query = ""
           THEN /\ response' = [status |-> 400,
                                body |-> [error |-> "Missing tenant_id or query"]]
                /\ all_docs' = <<>>
                /\ fuzzy_hits' = <<>>
                /\ semantic_hits' = <<>>
           ELSE LET loaded == load_vectorstore(bucket, tenant_id)
                    vectorstore == loaded[1]
                IN  IF loaded = <<>>
                    THEN /\ response' = [status |-> 404,
                                         body |-> [error |-> "No KB found for tenant " \o tenant_id]]
                         /\ all_docs' = <<>>
                         /\ fuzzy_hits' = <<>>
                         /\ semantic_hits' = <<>>
                    ELSE /\ semantic_hits' = SemanticHits(vectorstore, query)
                         /\ all_docs' = AllDocs(vectorstore)
                         /\ fuzzy_hits' = FuzzyHits(all_docs', query)
                         /\ response' = [status |-> 200,
                                         body |-> Fuse(fuzzy_hits', semantic_hits')]

\* the fuzzy-ranking loop body applied to the pair of lexical scores in
\* ranked: hit holds the boosted score of the hit it appends, if any
Rank ==
    /\ ~ranked.done
    /\ ranked' = [ranked EXCEPT
                    !.done = TRUE,
                    !.hit = IF Retained(ranked.score_title, ranked.score_content)
                            THEN <<boosted_score(ranked.score_title, ranked.score_content)>>
                            ELSE <<>>]
    /\ UNCHANGED <<bucket, uploaded, request, response, all_docs, fuzzy_hits, semantic_hits>>

---------------------------------------------------------------------------
(* Inputs.                                                                 *)

Tenants == {"a", "b"}

\* the documents an upload request may carry in Spec; the second has
\* neither title nor url, the third no content
UploadDocs ==
    { [title |-> "t90", url |-> "/a", content |-> "c60"],
      [content |-> "c85"],
      [title |-> "t100", url |-> "/a"] }

DocLists == UNION { [1..n -> UploadDocs] : n \in 0..MaxUploadDocs }

\* the JSON bodies of upload requests: either key may be absent
UploadBodies ==
    { [tenant_id |-> t, docs |-> d] : t \in Tenants \cup {""}, d \in DocLists }
    \cup { [tenant_id |-> t] : t \in Tenants }
    \cup { [docs |-> d] : d \in DocLists }

Queries == {"q"}

\* the query arguments of search requests: either key may be absent
SearchArgs ==
    { [tenant_id |-> t, query |-> q] : t \in Tenants \cup {""}, q \in Queries \cup {""} }
    \cup { [tenant_id |-> t] : t \in Tenants }
    \cup { [query |-> q] : q \in Queries }

\* the documents of the corpora of SpecFusion: the document at position i
\* is of one of five kinds
\*   1  a url of its own, fuzzy hit on the title
\*   2  a url of its own, no fuzzy hit
\*   3  the empty url, fuzzy hit on the content
\*   4  the url "/dup" and no title, no fuzzy hit
\*   5  no url, fuzzy hit on an exact title
Kinds == 1..5

DocOfKind(kind, i) ==
    CASE kind = 1 -> [title |-> "t90", url |-> "/" \o ToString(i), content |-> "c60"]
      [] kind = 2 -> [title |-> "t50", url |-> "/" \o ToString(i), content |-> "c70"]
      [] kind = 3 -> [title |-> "t50", url |-> "", content |-> "c85"]
      [] kind = 4 -> [url |-> "/dup", content |-> "c60"]
      [] kind = 5 -> [title |-> "t100", content |-> "c70"]

\* the docs list whose document at position i is of kind kinds[i]
FusionDocs(kinds) == [i \in 1..Len(kinds) |-> DocOfKind(kinds[i], i)]

---------------------------------------------------------------------------
(* Specifications.                                                         *)

NoRequest ==
    /\ request = [op |-> "none"]
    /\ response = [status |-> 0]
    /\ all_docs = <<>>
    /\ fuzzy_hits = <<>>
    /\ semantic_hits = <<>>

NotRanking == ranked = [score_title |-> 0, score_content |-> 0, done |-> TRUE, hit |-> <<>>]

\* the service after start-up: an empty bucket
Init ==
    /\ bucket = <<>>
    /\ uploaded = <<>>
    /\ NoRequest
    /\ NotRanking

Next ==
    \/ \E data \in UploadBodies : Upload(data)
    \/ \E args \in SearchArgs : Search(args)

Spec == Init /\ [][Next]_vars

\* search() as a function of the corpus: tenant "a" holds an uploaded
\* corpus of up to MaxDocs documents
InitFusion ==
    /\ \E n \in 1..MaxDocs : \E kinds \in [1..n -> Kinds] :
         LET r == UploadResult(<<>>, <<>>, [tenant_id |-> "a", docs |-> FusionDocs(kinds)])
         IN  bucket = r.bucket /\ uploaded = r.uploaded
    /\ NoRequest
    /\ NotRanking

NextFusion == \E q \in Queries : Search([tenant_id |-> "a", query |-> q])

SpecFusion == InitFusion /\ [][NextFusion]_vars

\* the ranking rule as a function of the two lexical scores
InitRank ==
    /\ bucket = <<>>
    /\ uploaded = <<>>
    /\ NoRequest
    /\ \E score_title \in Ratios, score_content \in Ratios :
         ranked = [score_title |-> score_title, score_content |-> score_content,
                   done |-> FALSE, hit |-> <<>>]

NextRank == Rank

SpecRank == InitRank /\ [][NextRank]_vars

---------------------------------------------------------------------------
(* Properties.                                                             *)

\* the last request was a search that returned a Result List
SearchOk == request.op = "search" /\ response.status = 200

Results == response.body

Urls(hits) == { hits[i].url : i \in DOMAIN hits }

Take(s, n) == SubSeq(s, 1, IF Len(s) < n THEN Len(s) ELSE n)

\* C1: the Result List of a search holds no two entries with the same url,
\* the empty url of a document without url included.
C1_UniqueUrls ==
    SearchOk =>
        \A i, j \in DOMAIN Results : i # j => Results[i].url # Results[j].url

\* two fuzzy hits with the empty url, of a document with url "" and of one
\* without url, and two semantic hits with a url no fuzzy hit has; one
\* result for each of the two urls
C1_Witness ==
    /\ SearchOk
    /\ \E i, j \in DOMAIN fuzzy_hits :
         /\ fuzzy_hits[i].url = "" /\ fuzzy_hits[j].url = ""
         /\ fuzzy_hits[i].score # fuzzy_hits[j].score
    /\ \E i, j \in DOMAIN semantic_hits :
         /\ i # j
         /\ semantic_hits[i].url = semantic_hits[j].url
         /\ semantic_hits[i].url \notin Urls(fuzzy_hits)
         /\ semantic_hits[i].url \in Urls(Results)
    /\ Cardinality({ i \in DOMAIN Results : Results[i].url = "" }) = 1

\* C2: the Result List of a search has at most 6 entries.
C2_AtMostSix == SearchOk => Len(Results) <= 6

\* more than 6 urls among the hits, fuzzy and semantic entries returned
C2_Witness ==
    /\ SearchOk
    /\ Cardinality(Urls(fuzzy_hits) \cup Urls(semantic_hits)) > 6
    /\ Len(Results) = 6
    /\ \E i \in DOMAIN Results : Results[i].source = "fuzzy"
    /\ \E i \in DOMAIN Results : Results[i].source = "semantic"

\* C3: in the Result List every fuzzy entry comes before every semantic
\* entry, and the scores within each of the two groups do not increase.
C3_FuzzyFirstDescending ==
    SearchOk =>
        \A i, j \in DOMAIN Results :
            i < j =>
                /\ ~(Results[i].source = "semantic" /\ Results[j].source = "fuzzy")
                /\ Results[i].source = Results[j].source
                       => Results[i].score >= Results[j].score

\* both groups present with two scores each, from hit lists that were not
\* in descending order
C3_Witness ==
    /\ SearchOk
    /\ \E i, j \in DOMAIN fuzzy_hits :
         i < j /\ fuzzy_hits[i].score < fuzzy_hits[j].score
    /\ \E i, j \in DOMAIN semantic_hits :
         i < j /\ semantic_hits[i].score < semantic_hits[j].score
    /\ \E i, j \in DOMAIN Results :
         /\ Results[i].source = "fuzzy" /\ Results[j].source = "fuzzy"
         /\ Results[i].score > Results[j].score
    /\ \E i, j \in DOMAIN Results :
         /\ Results[i].source = "semantic" /\ Results[j].source = "semantic"
         /\ Results[i].score > Results[j].score

\* C4: when the fuzzy hits cover 6 or more urls, the Result List holds no
\* semantic entry.
C4_NoSemanticWhenSixFuzzy ==
    (SearchOk /\ Cardinality(Urls(fuzzy_hits)) >= 6) =>
        \A i \in DOMAIN Results : Results[i].source # "semantic"

\* six fuzzy urls and a semantic hit with a seventh url
C4_Witness ==
    /\ SearchOk
    /\ Cardinality(Urls(fuzzy_hits)) >= 6
    /\ \E i \in DOMAIN semantic_hits : semantic_hits[i].url \notin Urls(fuzzy_hits)
    /\ Len(Results) = 6

\* C5: a document becomes a fuzzy hit iff the larger of its title and
\* content scores is at least 80 (80 kept, 79 dropped); the hit's score is
\* 200 for a title score of 100, else 180 for a content score of 100, else
\* the larger score plus 50 when the title score is the larger, else the
\* larger score.
C5_RankRule ==
    ranked.done =>
        LET st == ranked.score_title
            sc == ranked.score_content
            m  == IF st > sc THEN st ELSE sc
        IN  /\ (ranked.hit # <<>>) <=> (m >= 80)
            /\ m = 80 => ranked.hit # <<>>
            /\ m = 79 => ranked.hit = <<>>
            /\ ranked.hit # <<>> =>
                 ranked.hit[1] = CASE st = 100 -> 200
                                   [] st # 100 /\ sc = 100 -> 180
                                   [] st # 100 /\ sc # 100 /\ st > sc -> m + 50
                                   [] OTHER -> m

\* a title score of exactly 80 above a content score of 79
C5_Witness ==
    /\ ranked.done
    /\ ranked.score_title = 80
    /\ ranked.score_content = 79
    /\ ranked.hit = <<130>>

\* the tenant identifier of a search request is missing
TenantMissing(args) == "tenant_id" \notin DOMAIN args \/ args.tenant_id = ""

QueryMissing(args) == "query" \notin DOMAIN args \/ args.query = ""

\* no upload has completed for the tenant of a search request
TenantUnknown(args) == ~TenantMissing(args) /\ args.tenant_id \notin DOMAIN uploaded

\* C6 as claimed: a search whose tenant identifier is missing or names a
\* tenant without completed upload ends with NotFound (404).
C6_Original ==
    (request.op = "search" /\ (TenantMissing(request.args) \/ TenantUnknown(request.args)))
        => response.status = 404

\* C6 as amended: a search with tenant identifier and query that names a
\* tenant without completed upload ends with NotFound (404); a search whose
\* tenant identifier or query is missing ends with InvalidInput (400); none
\* of them returns a Result List.
C6_NotFoundOrInvalid ==
    request.op = "search" =>
        /\ (TenantUnknown(request.args) /\ ~QueryMissing(request.args))
               => response.status = 404
        /\ (TenantMissing(request.args) \/ QueryMissing(request.args))
               => response.status = 400
        /\ (TenantMissing(request.args) \/ TenantUnknown(request.args))
               => response.status \in {400, 404} /\ "error" \in DOMAIN response.body

\* a search with a query for a tenant that never uploaded, while another
\* tenant has a corpus
C6_Witness ==
    /\ request.op = "search"
    /\ TenantUnknown(request.args)
    /\ ~QueryMissing(request.args)
    /\ uploaded # <<>>
    /\ response.status = 404

\* the corpus stored from the docs of an upload: title and url default to
\* "Untitled" and ""
MatchesUpload(corpus, docs) ==
    /\ Len(corpus) = Len(docs)
    /\ \A i \in DOMAIN docs :
         /\ corpus[i].content = docs[i].content
         /\ corpus[i].title = (IF "title" \in DOMAIN docs[i] THEN docs[i].title ELSE "Untitled")
         /\ corpus[i].url = (IF "url" \in DOMAIN docs[i] THEN docs[i].url ELSE "")

\* C7: a tenant's stored corpus, and the corpus a search for it scans, is
\* the docs list of the tenant's most recent successful upload, whatever
\* was uploaded before and whatever other tenants did; a tenant without
\* successful upload has no corpus.
C7_CorpusIsLastUpload ==
    /\ \A t \in Tenants :
         IF t \in DOMAIN uploaded
         THEN /\ get_blob_name(t) \in DOMAIN bucket
              /\ MatchesUpload(AllDocs(bucket[get_blob_name(t)]), uploaded[t])
         ELSE get_blob_name(t) \notin DOMAIN bucket
    /\ Cardinality(DOMAIN bucket) = Cardinality(DOMAIN uploaded)
    /\ SearchOk => MatchesUpload(all_docs, uploaded[request.args.tenant_id])

\* a search of tenant a's one-document corpus while tenant b holds a
\* different corpus of two documents
C7_Witness ==
    /\ SearchOk
    /\ request.args.tenant_id = "a"
    /\ DOMAIN uploaded = {"a", "b"}
    /\ Len(uploaded["a"]) = 1
    /\ Len(uploaded["b"]) = 2
    /\ Len(all_docs) = 1

\* C8: an upload with an empty docs list is answered with InvalidInput
\* (400) and leaves the bucket as it was.
C8_EmptyUploadRejected ==
    [][ (request'.op = "upload" /\ Get(request'.data, "docs", <<>>) = <<>>)
            => (response'.status = 400 /\ bucket' = bucket) ]_vars

\* a rejected empty upload for tenant a, whose earlier corpus is still stored
C8_Witness ==
    /\ request.op = "upload"
    /\ request.data = [tenant_id |-> "a", docs |-> <<>>]
    /\ response.status = 400
    /\ "a" \in DOMAIN uploaded
    /\ bucket[get_blob_name("a")] # <<>>

\* the index of the first hit with the highest score
FirstMax(hits) ==
    CHOOSE i \in DOMAIN hits :
        /\ \A j \in DOMAIN hits : hits[j].score <= hits[i].score
        /\ \A j \in 1..(i - 1) : hits[j].score < hits[i].score

RECURSIVE ByScoreDesc(_)
\* the hits by descending score, equal scores in their given order
ByScoreDesc(hits) ==
    IF hits = <<>> THEN <<>>
    ELSE LET i == FirstMax(hits)
         IN  <<hits[i]>> \o ByScoreDesc(SubSeq(hits, 1, i - 1) \o SubSeq(hits, i + 1, Len(hits)))

\* the hits whose url no earlier hit has
FirstPerUrl(hits) ==
    LET keep == { i \in DOMAIN hits : \A j \in 1..(i - 1) : hits[j].url # hits[i].url }
        RECURSIVE Pick(_)
        Pick(n) == IF n = 0 THEN <<>>
                   ELSE IF n \in keep THEN Append(Pick(n - 1), hits[n]) ELSE Pick(n - 1)
    IN  Pick(Len(hits))

\* C9 as claimed: without fuzzy hits the Result List is exactly the 6
\* semantic hits with the highest scores, in descending order.
C9_Original ==
    (SearchOk /\ fuzzy_hits = <<>>) =>
        Results = Take(ByScoreDesc(semantic_hits), 6)

\* C9 as amended: without fuzzy hits the Result List is the semantic hits in
\* descending score order, without the hits whose url an earlier one has,
\* cut to the first 6.
C9_TopSixDistinctSemantic ==
    (SearchOk /\ fuzzy_hits = <<>>) =>
        Results = Take(FirstPerUrl(ByScoreDesc(semantic_hits)), 6)

\* seven semantic hits with seven urls and different scores, six returned
C9_Witness ==
    /\ SearchOk
    /\ fuzzy_hits = <<>>
    /\ Cardinality(Urls(semantic_hits)) = 7
    /\ \E i, j \in DOMAIN semantic_hits : semantic_hits[i].score < semantic_hits[j].score
    /\ Len(Results) = 6

\* C10: a Result List of fewer than 6 entries holds every url of the fuzzy
\* and semantic hits; and the entry of a url that has fuzzy hits is one of
\* them with the highest score among them.
C10_BackfillExhaustive ==
    SearchOk =>
        /\ Len(Results) < 6 =>
             Urls(fuzzy_hits) \cup Urls(semantic_hits) \subseteq Urls(Results)
        /\ \A i \in DOMAIN Results :
             Results[i].url \in Urls(fuzzy_hits) =>
                 /\ \E k \in DOMAIN fuzzy_hits : fuzzy_hits[k] = Results[i]
                 /\ \A k \in DOMAIN fuzzy_hits :
                      fuzzy_hits[k].url = Results[i].url
                          => fuzzy_hits[k].score <= Results[i].score

\* fewer than 6 results; one url has fuzzy hits of two scores and a
\* semantic hit; another url has semantic hits only
C10_Witness ==
    /\ SearchOk
    /\ Len(Results) < 6
    /\ \E i, j \in DOMAIN fuzzy_hits :
         fuzzy_hits[i].url = fuzzy_hits[j].url /\ fuzzy_hits[i].score < fuzzy_hits[j].score
    /\ \E i \in DOMAIN semantic_hits : semantic_hits[i].url \in Urls(fuzzy_hits)
    /\ \E i \in DOMAIN Results : Results[i].source = "semantic"

=============================================================================
